---------------------------- MODULE Spec2Model ----------------------------
(***************************************************************************)
(* A model of lang-c's driver (src/src/driver.rs): preprocessing through   *)
(* an external command, parsing of the preprocessed text, and the          *)
(* SyntaxError diagnostics.  The Environment, the Grammar Engine and the    *)
(* Location Resolver live in other files of the crate (env, parser, loc);  *)
(* they are modelled here from their specification.                        *)
(*                                                                         *)
(* Representation.  A text (a Rust String) is the sequence of its          *)
(* characters, each written as a TLA+ string.  The modelled C dialect is   *)
(* abbreviated so that one character is one lexical unit:                  *)
(*    "t"   typedef int T;          "v"   int T;      (ordinary T)         *)
(*    "u"   T * x;   (declaration if T names a type, else expression)      *)
(*    "d"   T U;     (parses only if T names a type; declares U)           *)
(*    "{"   "}"      a block (a scope)                                     *)
(*    "g"   a statement using the GNU keyword __asm__                      *)
(*    "c"   a statement using the Clang keyword __block                    *)
(*    "\n"  a newline; a line-marker directive is one unit that includes   *)
(*          its own end of line.                                           *)
(* Offsets count units.                                                    *)
(***************************************************************************)
EXTENDS Integers, Sequences, FiniteSets, TLC

VARIABLES
    pc,         \* position of the single caller: "ready" before a call, "done" after
    input,      \* the arguments (and the outside world's answer) of the call
    result,     \* what the call returned
    spawned,    \* the commands the call handed to the operating system, in order
    engineRuns, \* how many times the call invoked the Grammar Engine
    located,    \* what each get_location call on the returned error gave, in order
    env,        \* SpecEnv: the Environment under test
    prevEnv,    \* SpecEnv: the Environment before the latest operation
    lastOp,     \* SpecEnv: the latest operation
    first,      \* SpecIsolation: the first parse_preprocessed call and its result
    lastEnv,    \* SpecIsolation: history variable, the Environment of the latest
                \* call as it was when the call returned (the code drops it there)
    shown       \* the chunks written to the formatter, one per write!

vars == <<pc, input, result, spawned, engineRuns, located, env, prevEnv, lastOp,
          first, lastEnv, shown>>

None == [tag |-> "None"]

Range(s) == {s[i] : i \in DOMAIN s}

SeqsUpTo(S, n) == UNION {[1..k -> S] : k \in 0..n}

--------------------------------------------------------------------------
(* Flavor and Config                                                      *)

Flavor == {"StdC11", "GnuC11", "ClangC11"}

with_gcc == [cpp_command |-> "gcc", cpp_options |-> <<"-E">>, flavor |-> "GnuC11"]

with_clang == [cpp_command |-> "clang", cpp_options |-> <<"-E">>, flavor |-> "ClangC11"]

TargetOs == {"macos", "linux"}

default(target_os) == IF target_os = "macos" THEN with_clang ELSE with_gcc

--------------------------------------------------------------------------
(* Environment (crate::env): a stack of scopes, innermost last, each a     *)
(* map from the names it binds to their kind, and the flavor's keywords.   *)

Names == {"T", "U"}

Kinds == {"TypeName", "OrdinaryIdentifier", "EnumerationConstant"}

EmptyScope == [n \in {} |-> "TypeName"]

GnuKeywords == {"__asm__"}

ClangKeywords == {"__block"}

with_core == [scopes |-> <<EmptyScope>>, extensions |-> {}]

with_gnu == [scopes |-> <<EmptyScope>>, extensions |-> GnuKeywords]

with_clang_env == [scopes |-> <<EmptyScope>>, extensions |-> GnuKeywords \cup ClangKeywords]

push_scope(e) == [e EXCEPT !.scopes = Append(@, EmptyScope)]

pop_scope(e) == [e EXCEPT !.scopes = SubSeq(@, 1, Len(@) - 1)]

declare(e, name, kind) ==
    LET top == e.scopes[Len(e.scopes)]
        new == [n \in DOMAIN top \cup {name} |-> IF n = name THEN kind ELSE top[n]]
    IN [e EXCEPT !.scopes[Len(e.scopes)] = new]

\* Mutant: the outermost scope that binds the name decides.
RECURSIVE lookup_outermost(_, _, _)
lookup_outermost(scopes, k, name) ==
    IF k = 0 THEN "Unbound"
    ELSE LET outer == lookup_outermost(scopes, k - 1, name) IN
         IF outer # "Unbound" THEN outer
         ELSE IF name \in DOMAIN scopes[k] THEN scopes[k][name]
         ELSE "Unbound"

\* Search the scopes from the innermost outward; the first that binds the
\* name decides.
RECURSIVE lookup(_, _, _)
lookup(scopes, k, name) ==
    IF k = 0 THEN "Unbound"
    ELSE IF name \in DOMAIN scopes[k] THEN scopes[k][name]
    ELSE lookup(scopes, k - 1, name)

is_typedef_name(e, name) == lookup(e.scopes, Len(e.scopes), name) = "TypeName"

is_extension_keyword(e, word) == word \in e.extensions

--------------------------------------------------------------------------
(* Expected tokens.  A token is a &'static str; str orders by its bytes.  *)

TokenBytes(t) ==
    CASE t = "(" -> <<40>>
      [] t = ";" -> <<59>>
      [] t = "=" -> <<61>>
      [] t = "==" -> <<61, 61>>
      [] t = "__asm__" -> <<95, 95, 97, 115, 109, 95, 95>>
      [] t = "__block" -> <<95, 95, 98, 108, 111, 99, 107>>
      [] t = "int" -> <<105, 110, 116>>
      [] t = "typedef" -> <<116, 121, 112, 101, 100, 101, 102>>
      [] t = "{" -> <<123>>
      [] t = "}" -> <<125>>

Tokens == {"(", ";", "=", "==", "__asm__", "__block", "int", "typedef", "{", "}"}

\* Lexicographic order of byte strings: <[u8] as Ord>.
RECURSIVE BytesLess(_, _)
BytesLess(a, b) ==
    IF b = <<>> THEN FALSE
    ELSE IF a = <<>> THEN TRUE
    ELSE IF a[1] # b[1] THEN a[1] < b[1]
    ELSE BytesLess(Tail(a), Tail(b))

StrLess(s, t) == BytesLess(TokenBytes(s), TokenBytes(t))

\* A BTreeSet is written as its in-order traversal: ascending, no duplicates.
RECURSIVE BTreeInsert(_, _)
BTreeInsert(s, x) ==
    IF s = <<>> THEN <<x>>
    ELSE IF s[1] = x THEN s
    ELSE IF StrLess(x, s[1]) THEN <<x>> \o s
    ELSE <<s[1]>> \o BTreeInsert(Tail(s), x)

RECURSIVE BTreeFromSeq(_)
BTreeFromSeq(xs) ==
    IF xs = <<>> THEN <<>>
    ELSE BTreeInsert(BTreeFromSeq(SubSeq(xs, 1, Len(xs) - 1)), xs[Len(xs)])

RECURSIVE BTreeFromSet(_)
BTreeFromSet(S) ==
    IF S = {} THEN <<>>
    ELSE LET x == CHOOSE y \in S : TRUE IN BTreeInsert(BTreeFromSet(S \ {x}), x)

--------------------------------------------------------------------------
(* Grammar Engine (crate::parser::translation_unit).                      *)

DirectiveUnits == {"# 7 \"foo.h\" 1", "# 3 \"main.c\" 2", "# 5 \"gen.c\""}

MalformedDirective == "# pragma"

Whitespace == {"\n", MalformedDirective} \cup DirectiveUnits

\* The units that end a line of the text.
LineEnds == Whitespace

\* The engine's own position figures: lines and columns counted in the
\* preprocessed text itself, directives being lines like any other.
NaiveLine(src, offset) == 1 + Cardinality({k \in 1..offset : src[k] \in LineEnds})

NaiveColumn(src, offset) ==
    LET ends == {k \in 1..offset : src[k] \in LineEnds}
        last == IF ends = {} THEN 0 ELSE CHOOSE k \in ends : \A j \in ends : j <= k
    IN offset - last + 1

\* What may start a statement where the parse stands.
StartExpected(e) ==
    {"int", "typedef", "{"}
        \cup (IF Len(e.scopes) > 1 THEN {"}"} ELSE {})
        \cup (IF is_extension_keyword(e, "__asm__") THEN {"__asm__"} ELSE {})
        \cup (IF is_extension_keyword(e, "__block") THEN {"__block"} ELSE {})

\* What may follow an identifier that is read as an expression.
AfterIdentifierExpected == {"(", ";", "=", "=="}

Failure(src, offset, expected, e) ==
    [ok |-> FALSE,
     err |-> [offset |-> offset,
              line |-> NaiveLine(src, offset),
              column |-> NaiveColumn(src, offset),
              expected |-> BTreeFromSet(expected)],
     env |-> e]

Node(kind, i) == [kind |-> kind, at |-> i - 1]

\* One statement after another, left to right, on the one Environment.
RECURSIVE statements(_, _, _, _)
statements(src, i, e, nodes) ==
    IF i > Len(src)
    THEN IF Len(e.scopes) > 1
         THEN Failure(src, Len(src), StartExpected(e), e)
         ELSE [ok |-> TRUE, unit |-> nodes, env |-> e]
    ELSE LET c == src[i] IN
         IF c \in Whitespace THEN statements(src, i + 1, e, nodes)
         ELSE IF c = "t"
         THEN statements(src, i + 1, declare(e, "T", "TypeName"),
                         Append(nodes, Node("Typedef", i)))
         ELSE IF c = "v"
         THEN statements(src, i + 1, declare(e, "T", "OrdinaryIdentifier"),
                         Append(nodes, Node("Variable", i)))
         ELSE IF c = "u"
         THEN statements(src, i + 1, e,
                         Append(nodes, Node(IF is_typedef_name(e, "T")
                                            THEN "PointerDeclaration"
                                            ELSE "Multiplication", i)))
         ELSE IF c = "d"
         THEN IF is_typedef_name(e, "T")
              THEN statements(src, i + 1, declare(e, "U", "OrdinaryIdentifier"),
                              Append(nodes, Node("Declaration", i)))
              ELSE Failure(src, i - 1, AfterIdentifierExpected, e)
         ELSE IF c = "{"
         THEN statements(src, i + 1, push_scope(e), Append(nodes, Node("BlockBegin", i)))
         ELSE IF c = "}" /\ Len(e.scopes) > 1
         THEN statements(src, i + 1, pop_scope(e), Append(nodes, Node("BlockEnd", i)))
         ELSE IF c = "g" /\ is_extension_keyword(e, "__asm__")
         THEN statements(src, i + 1, e, Append(nodes, Node("Asm", i)))
         ELSE IF c = "c" /\ is_extension_keyword(e, "__block")
         THEN statements(src, i + 1, e, Append(nodes, Node("Block", i)))
         ELSE Failure(src, i - 1, StartExpected(e), e)

translation_unit(src, e) == statements(src, 1, e, <<>>)

--------------------------------------------------------------------------
(* Location Resolver (crate::loc::get_location_for_offset).               *)

parse_line_directive(u) ==
    CASE u = "# 7 \"foo.h\" 1" -> [line |-> 7, file |-> "foo.h", flag |-> 1]
      [] u = "# 3 \"main.c\" 2" -> [line |-> 3, file |-> "main.c", flag |-> 2]
      [] u = "# 5 \"gen.c\"" -> [line |-> 5, file |-> "gen.c", flag |-> 0]

OriginalFile == ""

Location(file, line) == [file |-> file, line |-> line]

\* Scan the lines that end before the offset: a directive sets the file and
\* the line (pushing the place it was read at when it enters a file, popping
\* when it returns to the includer); any other line end adds one line.
RECURSIVE scan(_, _, _, _, _)
scan(src, k, offset, loc, inc) ==
    IF k > offset THEN <<loc, inc>>
    ELSE LET c == src[k] IN
         IF c \in DirectiveUnits
         THEN LET d == parse_line_directive(c)
                  stack == IF d.flag = 1 THEN Append(inc, loc)
                           ELSE IF d.flag = 2 /\ inc # <<>>
                           THEN SubSeq(inc, 1, Len(inc) - 1)
                           ELSE inc
              IN scan(src, k + 1, offset, Location(d.file, d.line), stack)
         ELSE IF c \in LineEnds
         THEN scan(src, k + 1, offset, Location(loc.file, loc.line + 1), inc)
         ELSE scan(src, k + 1, offset, loc, inc)

get_location_for_offset(src, offset) ==
    scan(src, 1, offset, Location(OriginalFile, 1), <<>>)

\* The column the resolver computes: units since the last line end.
resolved_column(src, offset) ==
    LET ends == {k \in 1..offset : src[k] \in LineEnds}
        last == IF ends = {} THEN 0 ELSE CHOOSE k \in ends : \A j \in ends : j <= k
    IN offset - last + 1

--------------------------------------------------------------------------
(* Text encoding (String::from_utf8).  A String is written as the         *)
(* sequence of its characters; from_utf8 accepts exactly the well-formed   *)
(* UTF-8 byte strings and yields the characters they encode.              *)

Chr(cp) ==
    CASE cp = 10 -> "\n"
      [] cp = 99 -> "c"
      [] cp = 100 -> "d"
      [] cp = 101 -> "e"
      [] cp = 103 -> "g"
      [] cp = 116 -> "t"
      [] cp = 117 -> "u"
      [] cp = 118 -> "v"
      [] cp = 123 -> "{"
      [] cp = 125 -> "}"
      [] OTHER -> "U+" \o ToString(cp)

Continuation(b) == b \in 128..191

\* The number of bytes of the character that starts a byte string, 0 when
\* the string does not start with a well-formed character.
Width(bs) ==
    LET b == bs[1] IN
    IF b < 128 THEN 1
    ELSE IF b \in 194..223 /\ Len(bs) >= 2 /\ Continuation(bs[2]) THEN 2
    ELSE IF b \in 224..239 /\ Len(bs) >= 3 /\ Continuation(bs[2]) /\ Continuation(bs[3])
            /\ (b = 224 => bs[2] >= 160) /\ (b = 237 => bs[2] <= 159) THEN 3
    ELSE IF b \in 240..244 /\ Len(bs) >= 4 /\ Continuation(bs[2]) /\ Continuation(bs[3])
            /\ Continuation(bs[4])
            /\ (b = 240 => bs[2] >= 144) /\ (b = 244 => bs[2] <= 143) THEN 4
    ELSE 0

CodePoint(bs, w) ==
    CASE w = 1 -> bs[1]
      [] w = 2 -> (bs[1] - 192) * 64 + (bs[2] - 128)
      [] w = 3 -> (bs[1] - 224) * 4096 + (bs[2] - 128) * 64 + (bs[3] - 128)
      [] w = 4 -> (bs[1] - 240) * 262144 + (bs[2] - 128) * 4096
                    + (bs[3] - 128) * 64 + (bs[4] - 128)

RECURSIVE from_utf8(_)
from_utf8(bs) ==
    IF bs = <<>> THEN [ok |-> TRUE, text |-> <<>>]
    ELSE LET w == Width(bs) IN
         IF w = 0 THEN [ok |-> FALSE, text |-> <<>>]
         ELSE LET rest == from_utf8(SubSeq(bs, w + 1, Len(bs))) IN
              IF rest.ok
              THEN [ok |-> TRUE, text |-> <<Chr(CodePoint(bs, w))>> \o rest.text]
              ELSE rest

--------------------------------------------------------------------------
(* The driver (src/src/driver.rs).                                        *)

Ok(v) == [tag |-> "Ok", value |-> v]

Err(e) == [tag |-> "Err", error |-> e]

PreprocessorError(e) == [variant |-> "PreprocessorError", inner |-> e]

\* impl From<SyntaxError> for Error
from(e) == [variant |-> "SyntaxError", inner |-> e]

\* io::Error::new(io::ErrorKind::Other, payload)
io_error_other(payload) == [kind |-> "Other", payload |-> payload]

InvalidUtf8Message == <<"cpp error contains invalid utf-8">>

\* Command::new(cpp_command), then one arg per option, then the source.
RECURSIVE add_options(_, _, _)
add_options(cmd, options, k) ==
    IF k > Len(options) THEN cmd
    ELSE add_options([cmd EXCEPT !.args = Append(@, options[k])], options, k + 1)

\* Mutant: the source path is passed before the options.
command_source_first(config, source) ==
    add_options([program |-> config.cpp_command, args |-> <<source>>],
                config.cpp_options, 1)

command(config, source) ==
    LET cmd == add_options([program |-> config.cpp_command, args |-> <<>>],
                           config.cpp_options, 1)
    IN [cmd EXCEPT !.args = Append(@, source)]

\* ExitStatus::success(): the process ended by exiting, with code zero.
success(status) == status = "exit 0"

\* Mutant: the exit status is not looked at.
preprocess_any_status(config, source, world) ==
    LET res == IF ~world.started THEN Err(world.os_error)
               ELSE LET s == from_utf8(world.stdout) IN
                    IF s.ok THEN Ok(s.text)
                    ELSE Err(io_error_other([tag |-> "FromUtf8Error"]))
    IN [result |-> res, ran |-> <<[program |-> config.cpp_command,
                                   args |-> config.cpp_options \o <<source>>]>>]

\* world: what the operating system answers to cmd.output().
preprocess(config, source, world) ==
    LET cmd == command(config, source)
        res == IF ~world.started THEN Err(world.os_error)
               ELSE IF success(world.status)
               THEN LET s == from_utf8(world.stdout) IN
                    IF s.ok THEN Ok(s.text)
                    ELSE Err(io_error_other([tag |-> "FromUtf8Error"]))
               ELSE LET s == from_utf8(world.stderr) IN
                    IF s.ok THEN Err(io_error_other([tag |-> "Message", text |-> s.text]))
                    ELSE Err(io_error_other([tag |-> "Message",
                                             text |-> InvalidUtf8Message]))
    IN [result |-> res, ran |-> <<cmd>>]

\* Mutant: one Environment serves every parse.
NewEnv_kept(flavor) ==
    IF lastEnv # None THEN lastEnv
    ELSE CASE flavor = "StdC11" -> with_core
           [] flavor = "GnuC11" -> with_gnu
           [] flavor = "ClangC11" -> with_clang_env

\* Mutant: the Environment starts with T declared as a type name.
NewEnv_predeclared(flavor) ==
    declare(CASE flavor = "StdC11" -> with_core
              [] flavor = "GnuC11" -> with_gnu
              [] flavor = "ClangC11" -> with_clang_env,
            "T", "TypeName")

NewEnv(flavor) ==
    CASE flavor = "StdC11" -> with_core
      [] flavor = "GnuC11" -> with_gnu
      [] flavor = "ClangC11" -> with_clang_env

SyntaxError(source, line, column, offset, expected) ==
    [source |-> source, line |-> line, column |-> column, offset |-> offset,
     expected |-> expected]

\* Mutant: the line is stored where the offset belongs.
parse_preprocessed_line_as_offset(config, source) ==
    LET r == translation_unit(source, NewEnv(config.flavor)) IN
    [result |-> IF r.ok
                THEN Ok([source |-> source, unit |-> r.unit])
                ELSE Err(SyntaxError(source, r.err.line, r.err.column, r.err.line,
                                     r.err.expected)),
     engine |-> 1,
     env |-> r.env]

parse_preprocessed(config, source) ==
    LET r == translation_unit(source, NewEnv(config.flavor)) IN
    [result |-> IF r.ok
                THEN Ok([source |-> source, unit |-> r.unit])
                ELSE Err(SyntaxError(source, r.err.line, r.err.column, r.err.offset,
                                     r.err.expected)),
     engine |-> 1,
     env |-> r.env]

\* Mutant: every failure is wrapped as a PreprocessorError.
parse_one_error_kind(config, source, world) ==
    LET p == preprocess(config, source, world) IN
    IF p.result.tag = "Err"
    THEN [result |-> Err(PreprocessorError(p.result.error)), ran |-> p.ran, engine |-> 0]
    ELSE LET q == parse_preprocessed(config, p.result.value) IN
         [result |-> IF q.result.tag = "Ok" THEN q.result
                     ELSE Err(PreprocessorError(q.result.error)),
          ran |-> p.ran, engine |-> q.engine]

parse(config, source, world) ==
    LET p == preprocess(config, source, world) IN
    IF p.result.tag = "Err"
    THEN [result |-> Err(PreprocessorError(p.result.error)), ran |-> p.ran, engine |-> 0]
    ELSE LET q == parse_preprocessed(config, p.result.value) IN
         [result |-> IF q.result.tag = "Ok" THEN q.result ELSE Err(from(q.result.error)),
          ran |-> p.ran, engine |-> q.engine]

\* list.sort(): an insertion sort by the order of str.
RECURSIVE insert_sorted(_, _)
insert_sorted(s, x) ==
    IF s = <<>> THEN <<x>>
    ELSE IF StrLess(x, s[1]) THEN <<x>> \o s
    ELSE <<s[1]>> \o insert_sorted(Tail(s), x)

RECURSIVE sort(_)
sort(list) ==
    IF list = <<>> THEN <<>>
    ELSE insert_sorted(sort(SubSeq(list, 1, Len(list) - 1)), list[Len(list)])

\* Mutant: the separator is written before every token, the first included.
RECURSIVE write_tokens_separator_first(_, _, _)
write_tokens_separator_first(list, i, fmt) ==
    IF i > Len(list) THEN fmt
    ELSE write_tokens_separator_first(list, i + 1,
            Append(Append(fmt, ", "), "'" \o list[i] \o "'"))

RECURSIVE write_tokens(_, _, _)
write_tokens(list, i, fmt) ==
    IF i > Len(list) THEN fmt
    ELSE LET sep == IF i > 1 THEN Append(fmt, ", ") ELSE fmt
         IN write_tokens(list, i + 1, Append(sep, "'" \o list[i] \o "'"))

format_expected(self, fmt) == write_tokens(sort(self.expected), 1, fmt)

get_location(self) == get_location_for_offset(self.source, self.offset)

\* Mutant: the include chain is written from its last entry to its first.
RECURSIVE write_includes_reversed(_, _, _)
write_includes_reversed(inc, i, fmt) ==
    IF i > Len(inc) THEN fmt
    ELSE write_includes_reversed(inc, i + 1,
            Append(fmt, "\n  included from " \o inc[Len(inc) + 1 - i].file \o ":"
                            \o ToString(inc[Len(inc) + 1 - i].line)))

RECURSIVE write_includes(_, _, _)
write_includes(inc, i, fmt) ==
    IF i > Len(inc) THEN fmt
    ELSE write_includes(inc, i + 1,
            Append(fmt, "\n  included from " \o inc[i].file \o ":"
                            \o ToString(inc[i].line)))

Header(file, line, column) ==
    "unexpected token at \"" \o file \o "\" line " \o ToString(line)
        \o " column " \o ToString(column) \o ", expected "

\* impl fmt::Display for SyntaxError
fmt_SyntaxError(self, fmt) ==
    LET li == get_location(self)
        head == Append(fmt, Header(li[1].file, li[1].line, self.column))
    IN write_includes(li[2], 1, format_expected(self, head))

\* The text a formatter holds: its chunks, concatenated.
RECURSIVE Flatten(_)
Flatten(chunks) == IF chunks = <<>> THEN "" ELSE chunks[1] \o Flatten(Tail(chunks))

--------------------------------------------------------------------------
(* SpecDriver: one call of parse(config, source), the operating system's  *)
(* answer to the spawned command drawn from the bounded worlds.           *)

MaxOptions == 2

MaxStdout == 2

MaxStderr == 2

Options == {"-E", "-I."}

Configs ==
    {with_gcc, with_clang} \cup {default(os) : os \in TargetOs}
        \cup {[cpp_command |-> "cpp", cpp_options |-> o, flavor |-> "StdC11"] :
                o \in SeqsUpTo(Options, MaxOptions)}

Paths == {"main.c"}

\* 'u', '}', and the two bytes of U+00E9
StdoutBytes == {117, 125, 195, 169}

\* 'e' and a byte no UTF-8 text holds
StderrBytes == {101, 255}

Statuses == {"exit 0", "exit 1", "signal 9"}

NotFound == [kind |-> "NotFound", payload |-> [tag |-> "Os"]]

Worlds ==
    {[started |-> FALSE, os_error |-> NotFound, status |-> "none",
      stdout |-> <<>>, stderr |-> <<>>]}
        \cup {[started |-> TRUE, os_error |-> None, status |-> st,
               stdout |-> out, stderr |-> err] :
                st \in Statuses,
                out \in SeqsUpTo(StdoutBytes, MaxStdout),
                err \in SeqsUpTo(StderrBytes, MaxStderr)}

IdleEnv == env = None /\ prevEnv = None /\ lastOp = None

IdleIsolation == first = None /\ lastEnv = None

InitDriver ==
    /\ pc = "ready"
    /\ input \in [config : Configs, source : Paths, world : Worlds]
    /\ result = None
    /\ spawned = <<>>
    /\ engineRuns = 0
    /\ located = <<>>
    /\ shown = <<>>
    /\ IdleEnv
    /\ IdleIsolation

Parse ==
    /\ pc = "ready"
    /\ LET o == parse(input.config, input.source, input.world) IN
        /\ result' = o.result
        /\ spawned' = o.ran
        /\ engineRuns' = o.engine
    /\ pc' = "done"
    /\ UNCHANGED <<input, located, shown, env, prevEnv, lastOp, first, lastEnv>>

NextDriver == Parse

SpecDriver == InitDriver /\ [][NextDriver]_vars

--------------------------------------------------------------------------
(* Claims on SpecDriver.                                                  *)

Done == pc = "done"

StdoutText == from_utf8(input.world.stdout)

StderrText == from_utf8(input.world.stderr)

\* The preprocessing step fails: the process cannot be started, does not
\* exit with code zero, or its output does not decode.
PreprocessingFails ==
    \/ ~input.world.started
    \/ input.world.status # "exit 0"
    \/ ~StdoutText.ok

\* The Grammar Engine fails on the preprocessed text.
GrammarFails ==
    ~translation_unit(StdoutText.text, NewEnv(input.config.flavor)).ok

IsError(variant) == result.tag = "Err" /\ result.error.variant = variant

\* C1: a failed preprocessing step gives Error::PreprocessorError and the
\* Grammar Engine is not invoked; a grammar failure after a successful
\* preprocessing gives Error::SyntaxError; neither failure is ever reported
\* as the other.
C1_ErrorKindsDistinct ==
    Done =>
        /\ PreprocessingFails => IsError("PreprocessorError") /\ engineRuns = 0
        /\ ~PreprocessingFails /\ GrammarFails => IsError("SyntaxError")
        /\ IsError("SyntaxError") => ~PreprocessingFails /\ GrammarFails
        /\ IsError("PreprocessorError") => PreprocessingFails

C1_Witness ==
    /\ Done
    /\ ~PreprocessingFails
    /\ GrammarFails
    /\ IsError("SyntaxError")
    /\ engineRuns = 1

\* What parse got from the preprocessing step, read off its result.
PreprocessSucceeded == result.tag = "Ok" \/ IsError("SyntaxError")

PreprocessedText ==
    IF result.tag = "Ok" THEN result.value.source ELSE result.error.inner.source

\* C2: preprocessing succeeds, with stdout as the text, exactly when the
\* process exits with code zero and its stdout is valid UTF-8; a process that
\* does not exit with zero gives an error carrying stderr's text when stderr
\* is valid UTF-8 and the encoding-failure message otherwise; a zero exit
\* with undecodable stdout gives a preprocessor error.
C2_PreprocessOutcome ==
    Done =>
        /\ PreprocessSucceeded <=>
              input.world.started /\ input.world.status = "exit 0" /\ StdoutText.ok
        /\ PreprocessSucceeded => PreprocessedText = StdoutText.text
        /\ input.world.started /\ input.world.status # "exit 0" =>
              /\ IsError("PreprocessorError")
              /\ result.error.inner.kind = "Other"
              /\ result.error.inner.payload =
                    [tag |-> "Message",
                     text |-> IF StderrText.ok THEN StderrText.text
                              ELSE InvalidUtf8Message]
        /\ input.world.started /\ input.world.status = "exit 0" /\ ~StdoutText.ok =>
              IsError("PreprocessorError")

C2_Witness ==
    /\ Done
    /\ input.world.started
    /\ input.world.status = "exit 1"
    /\ StdoutText.ok
    /\ input.world.stdout # <<>>
    /\ ~StderrText.ok
    /\ result.error.inner.payload.text = InvalidUtf8Message

DefaultConfigs == {with_gcc, with_clang} \cup {default(os) : os \in TargetOs}

\* C7: one call of parse runs the preprocessor once, as cpp_command with the
\* options of cpp_options in their order followed by the source path; the
\* default configurations pass "-E".
C7_CommandLine ==
    /\ pc = "ready" => spawned = <<>>
    /\ Done =>
        /\ Len(spawned) = 1
        /\ spawned[1].program = input.config.cpp_command
        /\ spawned[1].args = input.config.cpp_options \o <<input.source>>
        /\ input.config \in DefaultConfigs => "-E" \in Range(spawned[1].args)
    /\ \A c \in DefaultConfigs : "-E" \in Range(c.cpp_options)

C7_Witness ==
    /\ Done
    /\ input.config.cpp_options = <<"-I.", "-E">>
    /\ spawned = <<[program |-> "cpp", args |-> <<"-I.", "-E", "main.c">>]>>

--------------------------------------------------------------------------
(* SpecSyntaxError: one call of parse_preprocessed, then get_location on  *)
(* the error it returned, any number of times.                            *)

MaxErrLen == 3

MaxLookups == 2

ErrUnits == {"\n", "# 7 \"foo.h\" 1", "u", "d", "}"}

FlavorConfigs ==
    {with_gcc, with_clang, [cpp_command |-> "cpp", cpp_options |-> <<"-E">>,
                            flavor |-> "StdC11"]}

InitSyntaxError ==
    /\ pc = "ready"
    /\ input \in [config : FlavorConfigs, source : SeqsUpTo(ErrUnits, MaxErrLen)]
    /\ result = None
    /\ spawned = <<>>
    /\ engineRuns = 0
    /\ located = <<>>
    /\ shown = <<>>
    /\ IdleEnv
    /\ IdleIsolation

ParsePreprocessed ==
    /\ pc = "ready"
    /\ LET o == parse_preprocessed(input.config, input.source) IN
        /\ result' = o.result
        /\ engineRuns' = o.engine
    /\ pc' = "done"
    /\ UNCHANGED <<input, spawned, located, shown, env, prevEnv, lastOp, first, lastEnv>>

GetLocation ==
    /\ pc = "done"
    /\ result.tag = "Err"
    /\ Len(located) < MaxLookups
    /\ located' = Append(located, get_location(result.error))
    /\ UNCHANGED <<pc, input, result, spawned, engineRuns, shown, env, prevEnv, lastOp,
                   first, lastEnv>>

NextSyntaxError == ParsePreprocessed \/ GetLocation

SpecSyntaxError == InitSyntaxError /\ [][NextSyntaxError]_vars

\* The Grammar Engine's own answer on the call's text.
Raw == translation_unit(input.source, NewEnv(input.config.flavor))

\* C3: parse_preprocessed returns a value on every text; on a grammar
\* failure it is a SyntaxError holding the input text and the raw failure's
\* offset, line, column and expected set, and every get_location call on it
\* gives the resolver's answer for (source, offset), without a further parse.
C3_SyntaxErrorCarriesRawFailure ==
    Done =>
        /\ result.tag \in {"Ok", "Err"}
        /\ result.tag = "Ok" <=> Raw.ok
        /\ ~Raw.ok =>
            /\ result.error.source = input.source
            /\ result.error.offset = Raw.err.offset
            /\ result.error.line = Raw.err.line
            /\ result.error.column = Raw.err.column
            /\ result.error.expected = Raw.err.expected
            /\ \A i \in DOMAIN located :
                  located[i] = get_location_for_offset(input.source, Raw.err.offset)
        /\ engineRuns = 1

C3_Witness ==
    /\ Done
    /\ input.source = <<"# 7 \"foo.h\" 1", "\n", "d">>
    /\ result.tag = "Err"
    /\ result.error.offset = 2
    /\ result.error.line = 3
    /\ Len(located) = MaxLookups
    /\ located[1] = <<Location("foo.h", 8), <<Location("", 1)>>>>
    /\ located[2] = located[1]

--------------------------------------------------------------------------
(* SpecDisplay: a SyntaxError is displayed.  The struct and its fields    *)
(* are public, so the displayed value is any SyntaxError over the bounded  *)
(* texts, with an offset inside its text.                                  *)

MaxDisplayLen == 3

MaxFigure == 2

DisplayUnits == {"\n", "# 7 \"foo.h\" 1", "# 3 \"main.c\" 2", "# 5 \"gen.c\"", "u"}

DisplayTokens == {";", "=", "=="}

SyntaxErrors ==
    UNION {[source : {src}, line : 1..MaxFigure, column : 1..MaxFigure,
            offset : 0..Len(src),
            expected : {BTreeFromSet(S) : S \in SUBSET DisplayTokens}] :
              src \in SeqsUpTo(DisplayUnits, MaxDisplayLen)}

InitDisplay ==
    /\ pc = "ready"
    /\ input \in SyntaxErrors
    /\ result = None
    /\ spawned = <<>>
    /\ engineRuns = 0
    /\ located = <<>>
    /\ shown = <<>>
    /\ IdleEnv
    /\ IdleIsolation

Display ==
    /\ pc = "ready"
    /\ shown' = fmt_SyntaxError(input, <<>>)
    /\ pc' = "done"
    /\ UNCHANGED <<input, result, spawned, engineRuns, located, env, prevEnv, lastOp,
                   first, lastEnv>>

NextDisplay == Display

SpecDisplay == InitDisplay /\ [][NextDisplay]_vars

Resolved == get_location_for_offset(input.source, input.offset)

\* C4: the displayed file, line and column are the figures the Location
\* Resolver computes from (source, offset); the error's own line and column
\* fields do not show.
C4_DisplayedPositionIsResolved ==
    Done =>
        shown[1] = Header(Resolved[1].file, Resolved[1].line,
                          resolved_column(input.source, input.offset))

\* The number of chunks the expected list takes.
ListChunks(n) == IF n = 0 THEN 0 ELSE 2 * n - 1

IncludedFrom(loc) == "\n  included from " \o loc.file \o ":" \o ToString(loc.line)

--------------------------------------------------------------------------
(* SpecExpected: the alternatives of a failed parse add their tokens to   *)
(* the expected set in some order, and the set is rendered.               *)

MaxAlternatives == 3

AlternativeTokens == {"(", ";", "=", "==", "}"}

InitExpected ==
    /\ pc = "ready"
    /\ input \in [alternatives : SeqsUpTo(AlternativeTokens, MaxAlternatives)]
    /\ result = None
    /\ spawned = <<>>
    /\ engineRuns = 0
    /\ located = <<>>
    /\ shown = <<>>
    /\ IdleEnv
    /\ IdleIsolation

FormatExpected ==
    /\ pc = "ready"
    /\ shown' = format_expected(SyntaxError(<<>>, 1, 1, 0,
                                            BTreeFromSeq(input.alternatives)), <<>>)
    /\ pc' = "done"
    /\ UNCHANGED <<input, result, spawned, engineRuns, located, env, prevEnv, lastOp,
                   first, lastEnv>>

NextExpected == FormatExpected

SpecExpected == InitExpected /\ [][NextExpected]_vars

\* The least token of a set, by the order of str.
Least(S) == CHOOSE t \in S : \A o \in S : o = t \/ StrLess(t, o)

\* The rendering of a set of tokens, defined on the set alone.
RECURSIVE Rendering(_)
Rendering(S) ==
    IF S = {} THEN ""
    ELSE "'" \o Least(S) \o "'"
            \o (IF S = {Least(S)} THEN "" ELSE ", " \o Rendering(S \ {Least(S)}))

\* The token a quoted chunk holds.
Quoted(chunk, S) == CHOOSE t \in S : chunk = "'" \o t \o "'"

\* C5: the expected set is rendered as its tokens in single quotes, in
\* ascending order, each once, separated by ", " with no separator first or
\* last; the text depends on the set alone, and the empty set gives "".
C5_ExpectedRendering ==
    Done =>
        LET S == Range(input.alternatives)
            n == Cardinality(S)
        IN /\ Flatten(shown) = Rendering(S)
           /\ S = {} => Flatten(shown) = ""
           /\ Len(shown) = ListChunks(n)
           /\ \A j \in 1..n : \E t \in S : shown[2 * j - 1] = "'" \o t \o "'"
           /\ \A j \in 1..(n - 1) :
                /\ shown[2 * j] = ", "
                /\ StrLess(Quoted(shown[2 * j - 1], S), Quoted(shown[2 * j + 1], S))
           /\ {Quoted(shown[2 * j - 1], S) : j \in 1..n} = S

C5_Witness ==
    /\ Done
    /\ input.alternatives = <<"==", "(", "==">>
    /\ Flatten(shown) = "'(', '=='"

--------------------------------------------------------------------------
(* SpecEnv: the operations of one Environment, in any order.              *)

MaxDepth == 2

InitEnv ==
    /\ env = with_core
    /\ prevEnv = None
    /\ lastOp = [op |-> "new", name |-> "", kind |-> ""]
    /\ pc = "ready"
    /\ input = None
    /\ result = None
    /\ spawned = <<>>
    /\ engineRuns = 0
    /\ located = <<>>
    /\ shown = <<>>
    /\ IdleIsolation

PushScope ==
    /\ Len(env.scopes) < MaxDepth
    /\ env' = push_scope(env)
    /\ prevEnv' = env
    /\ lastOp' = [op |-> "push_scope", name |-> "", kind |-> ""]
    /\ UNCHANGED <<pc, input, result, spawned, engineRuns, located, shown, first, lastEnv>>

\* The engine pops only a scope it pushed: the file scope stays.
PopScope ==
    /\ Len(env.scopes) > 1
    /\ env' = pop_scope(env)
    /\ prevEnv' = env
    /\ lastOp' = [op |-> "pop_scope", name |-> "", kind |-> ""]
    /\ UNCHANGED <<pc, input, result, spawned, engineRuns, located, shown, first, lastEnv>>

Declare(name, kind) ==
    /\ env' = declare(env, name, kind)
    /\ prevEnv' = env
    /\ lastOp' = [op |-> "declare", name |-> name, kind |-> kind]
    /\ UNCHANGED <<pc, input, result, spawned, engineRuns, located, shown, first, lastEnv>>

NextEnv ==
    \/ PushScope
    \/ PopScope
    \/ \E name \in Names, kind \in Kinds : Declare(name, kind)

SpecEnv == InitEnv /\ [][NextEnv]_vars

\* The scopes of an Environment that bind a name.
Binding(e, name) == {k \in 1..Len(e.scopes) : name \in DOMAIN e.scopes[k]}

Innermost(K) == CHOOSE k \in K : \A j \in K : j <= k

\* The innermost scope that binds the name binds it as a type name.
BoundAsTypeName(e, name) ==
    /\ Binding(e, name) # {}
    /\ e.scopes[Innermost(Binding(e, name))][name] = "TypeName"

\* C9: is_typedef_name(name) holds exactly when the innermost scope binding
\* the name binds it as TypeName; declare changes the innermost scope only,
\* there binding the name to the kind, and pop_scope gives back the
\* classification of the enclosing scopes.
C9_InnermostBindingDecides ==
    /\ \A name \in Names : is_typedef_name(env, name) <=> BoundAsTypeName(env, name)
    /\ lastOp.op = "declare" =>
        /\ Len(env.scopes) = Len(prevEnv.scopes)
        /\ \A k \in 1..(Len(env.scopes) - 1) : env.scopes[k] = prevEnv.scopes[k]
        /\ env.scopes[Len(env.scopes)][lastOp.name] = lastOp.kind
        /\ \A n \in Names \ {lastOp.name} :
              /\ n \in DOMAIN env.scopes[Len(env.scopes)]
                    <=> n \in DOMAIN prevEnv.scopes[Len(env.scopes)]
              /\ is_typedef_name(env, n) <=> is_typedef_name(prevEnv, n)
    /\ lastOp.op = "pop_scope" =>
        /\ Len(env.scopes) = Len(prevEnv.scopes) - 1
        /\ \A k \in 1..Len(env.scopes) : env.scopes[k] = prevEnv.scopes[k]

C9_Witness ==
    /\ lastOp.op = "pop_scope"
    /\ prevEnv.scopes = <<[n \in {"T"} |-> "TypeName"],
                          [n \in {"T"} |-> "OrdinaryIdentifier"]>>
    /\ ~is_typedef_name(prevEnv, "T")
    /\ is_typedef_name(env, "T")

--------------------------------------------------------------------------
(* SpecParse: one call of parse_preprocessed on a text of declarations,   *)
(* uses and blocks.                                                       *)

MaxParseLen == 4

ParseUnits == {"t", "v", "u", "d", "{", "}"}

InitParse ==
    /\ pc = "ready"
    /\ input \in [config : FlavorConfigs, source : SeqsUpTo(ParseUnits, MaxParseLen)]
    /\ result = None
    /\ spawned = <<>>
    /\ engineRuns = 0
    /\ located = <<>>
    /\ shown = <<>>
    /\ IdleEnv
    /\ IdleIsolation

ParseText ==
    /\ pc = "ready"
    /\ LET o == parse_preprocessed(input.config, input.source) IN
        /\ result' = o.result
        /\ engineRuns' = o.engine
    /\ pc' = "done"
    /\ UNCHANGED <<input, spawned, located, shown, env, prevEnv, lastOp, first, lastEnv>>

NextParse == ParseText

SpecParse == InitParse /\ [][NextParse]_vars

Count(src, lo, hi, u) == Cardinality({k \in lo..hi : src[k] = u})

\* The block that holds unit j is still open at unit i.
Encloses(src, j, i) ==
    \A k \in (j + 1)..(i - 1) : Count(src, j + 1, k, "}") <= Count(src, j + 1, k, "{")

\* The declarations of T before unit i that are in scope there.
InScope(src, i) ==
    {j \in 1..(i - 1) : src[j] \in {"t", "v"} /\ Encloses(src, j, i)}

\* Before unit i, read left to right, T was last declared by a typedef.
TypedefVisible(src, i) ==
    /\ InScope(src, i) # {}
    /\ src[Innermost(InScope(src, i))] = "t"

\* C10: a use of T is classified as a type name exactly when the latest
\* declaration of T in scope before it, in the text's order, is a typedef;
\* what follows the use in the text has no part in it.
C10_TypedefsLeftToRight ==
    Done =>
        LET src == input.source IN
        /\ result.tag = "Ok" =>
            /\ \A i \in 1..Len(src) : src[i] = "u" =>
                  \E k \in DOMAIN result.value.unit :
                      result.value.unit[k] =
                          Node(IF TypedefVisible(src, i) THEN "PointerDeclaration"
                               ELSE "Multiplication", i)
            /\ \A i \in 1..Len(src) : src[i] = "d" => TypedefVisible(src, i)
            /\ \A k \in DOMAIN result.value.unit :
                  result.value.unit[k].kind \in {"PointerDeclaration", "Declaration"}
                      => TypedefVisible(src, result.value.unit[k].at + 1)
        /\ result.tag = "Err" =>
            LET i == result.error.offset + 1 IN
            /\ \A j \in 1..(i - 1) : src[j] = "d" => TypedefVisible(src, j)
            /\ i <= Len(src) /\ src[i] = "d" => ~TypedefVisible(src, i)

C10_Witness ==
    /\ Done
    /\ input.source = <<"u", "t", "u", "d">>
    /\ result.tag = "Ok"
    /\ result.value.unit[1] = Node("Multiplication", 1)
    /\ result.value.unit[3] = Node("PointerDeclaration", 3)

--------------------------------------------------------------------------
(* SpecIsolation: parse_preprocessed is called again and again, on any    *)
(* texts under any configurations.  The first call is remembered, with    *)
(* whether a later call declared T as a type name at file scope.          *)

MaxIsolationLen == 1

IsolationUnits == {"t", "u", "d", "g"}

\* Two configurations of one flavor, and one of each other flavor.
IsolationConfigs ==
    FlavorConfigs \cup {[cpp_command |-> "cc", cpp_options |-> <<>>, flavor |-> "GnuC11"]}

InitIsolation ==
    /\ first = None
    /\ lastEnv = None
    /\ pc = "ready"
    /\ input = None
    /\ result = None
    /\ spawned = <<>>
    /\ engineRuns = 0
    /\ located = <<>>
    /\ shown = <<>>
    /\ IdleEnv

Call(config, source) ==
    /\ LET o == parse_preprocessed(config, source) IN
        /\ result' = o.result
        /\ engineRuns' = o.engine
        /\ lastEnv' = o.env
        /\ first' = IF first = None
                    THEN [config |-> config, source |-> source, result |-> o.result,
                          typedefSince |-> FALSE]
                    ELSE [first EXCEPT !.typedefSince =
                              @ \/ is_typedef_name(o.env, "T")]
    /\ input' = [config |-> config, source |-> source]
    /\ pc' = "done"
    /\ UNCHANGED <<spawned, located, shown, env, prevEnv, lastOp>>

NextIsolation ==
    \E config \in IsolationConfigs, source \in SeqsUpTo(IsolationUnits, MaxIsolationLen) :
        Call(config, source)

SpecIsolation == InitIsolation /\ [][NextIsolation]_vars

\* C8: two calls of parse_preprocessed with the same text and the same
\* flavor return the same result, whatever was parsed between them; each
\* call's Environment is the one of its flavor (StdC11 core, GnuC11 GNU,
\* ClangC11 Clang) and holds no declaration of an earlier call.
C8_ParsesAreIsolated ==
    Done =>
        /\ first.source = input.source /\ first.config.flavor = input.config.flavor
              => first.result = result
        /\ input.source = <<"u">> =>
              result = Ok([source |-> <<"u">>, unit |-> <<Node("Multiplication", 1)>>])
        /\ input.source = <<"g">> =>
              (result.tag = "Ok" <=> input.config.flavor \in {"GnuC11", "ClangC11"})
        /\ lastEnv.extensions =
              CASE input.config.flavor = "StdC11" -> with_core.extensions
                [] input.config.flavor = "GnuC11" -> with_gnu.extensions
                [] input.config.flavor = "ClangC11" -> with_clang_env.extensions

C8_Witness ==
    /\ Done
    /\ first.source = <<"d">>
    /\ input.source = first.source
    /\ first.config.flavor = "GnuC11"
    /\ first.config # input.config
    /\ input.config.flavor = "GnuC11"
    /\ first.typedefSince
    /\ result.tag = "Err"
    /\ result = first.result

==========================================================================
